---- MODULE Spec2Model ----
(***************************************************************************)
(* Model of the chess-helper core: the move ledger (GameTracker), the      *)
(* engine adapter (ChessEngine) and the game-quality analysis.             *)
(*                                                                         *)
(* The rules library (python-chess) is external.  Its Board is modelled on *)
(* a 4x4 board (files a..d, ranks 1..4, square = 4*rank + file) with the   *)
(* library's push/pop/legal-move/SAN-matching behaviour; pawns have no     *)
(* double step (and so no en passant) on this board.                       *)
(***************************************************************************)
EXTENDS Integers, Sequences, FiniteSets, TLC

VARIABLES
    board,          \* GameTracker.board: [pos, move_stack, stack]
    move_history,   \* GameTracker.move_history
    trail,          \* history: the ledger state reached by each apply still standing
    undone,         \* history: how many undos followed the last apply
    constructed,    \* ChessEngine.__init__ has run _initialize_engine
    stockfish,      \* ChessEngine.stockfish: "None" or "Stockfish"
    engine_path,    \* ChessEngine.engine_path
    ret,            \* the last call: its name, whether it raised, what it returned
    auto_save,              \* ChessConfig.auto_save
    auto_save_interval,     \* ChessConfig.auto_save_interval
    last_save_move_count,   \* AutoSave.last_save_move_count
    saves,          \* the calls of _perform_auto_save so far: move count and outcome
    pending         \* a ledger mutation succeeded and check_auto_save has not run yet

vars ==
    <<board, move_history, trail, undone, constructed, stockfish, engine_path, ret,
      auto_save, auto_save_interval, last_save_move_count, saves, pending>>

ledgerVars == <<board, move_history, trail, undone>>
engineVars == <<constructed, stockfish, engine_path>>
saveVars == <<auto_save, auto_save_interval, last_save_move_count, saves, pending>>

---------------------------------------------------------------------------
(* Bounds *)

MaxMoves == 3
MaxAnalysed == 3
MaxSaves == 3
MaxInterval == 3

---------------------------------------------------------------------------
(* Board geometry *)

Files == 0..3
Ranks == 0..3
Squares == 0..15

FileOf(s) == s % 4
RankOf(s) == s \div 4
Sq(f, r) == 4 * r + f

Abs(x) == IF x < 0 THEN -x ELSE x
Sgn(x) == IF x < 0 THEN -1 ELSE IF x > 0 THEN 1 ELSE 0
MaxOf(a, b) == IF a > b THEN a ELSE b

WHITE == "w"
BLACK == "b"
Other(c) == IF c = WHITE THEN BLACK ELSE WHITE

NoPiece == [t |-> "-", c |-> "-"]
Pc(t, c) == [t |-> t, c |-> c]

PromotionPieces == {"Q", "R", "B", "N"}
NoPromotion == "-"

Mv(f, t, p) == [from |-> f, to |-> t, promotion |-> p]

\* chess.Board(): the starting position
\*   rank 4:  k . . r
\*   rank 3:  r p . .
\*   rank 2:  R . P .
\*   rank 1:  K . . R
StartPlace ==
    [s \in Squares |->
        CASE s = 0  -> Pc("K", WHITE)
          [] s = 3  -> Pc("R", WHITE)
          [] s = 4  -> Pc("R", WHITE)
          [] s = 6  -> Pc("P", WHITE)
          [] s = 12 -> Pc("K", BLACK)
          [] s = 15 -> Pc("R", BLACK)
          [] s = 8  -> Pc("R", BLACK)
          [] s = 9  -> Pc("P", BLACK)
          [] OTHER  -> NoPiece]

KingHome(c) == IF c = WHITE THEN 0 ELSE 12
RookHome(c) == IF c = WHITE THEN 3 ELSE 15
CastleKingTo(c) == IF c = WHITE THEN 2 ELSE 14
CastleRookTo(c) == IF c = WHITE THEN 1 ELSE 13
LastRank(c) == IF c = WHITE THEN 3 ELSE 0
Forward(c) == IF c = WHITE THEN 4 ELSE -4

StartPos ==
    [place |-> StartPlace, turn |-> WHITE, castling |-> {3, 15},
     halfmove |-> 0, fullmove |-> 1]

NewBoard == [pos |-> StartPos, move_stack |-> <<>>, stack |-> <<>>]

---------------------------------------------------------------------------
(* Attacks *)

Dist(a, b) == MaxOf(Abs(FileOf(a) - FileOf(b)), Abs(RankOf(a) - RankOf(b)))
OnLine(a, b) == a # b /\ (FileOf(a) = FileOf(b) \/ RankOf(a) = RankOf(b))
OnDiag(a, b) == a # b /\ Abs(FileOf(a) - FileOf(b)) = Abs(RankOf(a) - RankOf(b))

SquaresBetween(a, b) ==
    {x \in Squares \ {a, b} :
        /\ Sgn(FileOf(x) - FileOf(a)) = Sgn(FileOf(b) - FileOf(a))
        /\ Sgn(RankOf(x) - RankOf(a)) = Sgn(RankOf(b) - RankOf(a))
        /\ Dist(a, x) < Dist(a, b)
        /\ IF OnLine(a, b) THEN OnLine(a, x) ELSE OnDiag(a, x)}

\* the geometry of every pair of squares, tabulated once
Geometry ==
    [a \in Squares |-> [b \in Squares |->
        [line    |-> OnLine(a, b),
         diag    |-> OnDiag(a, b),
         king    |-> a # b /\ Dist(a, b) = 1,
         knight  |-> {Abs(FileOf(a) - FileOf(b)), Abs(RankOf(a) - RankOf(b))} = {1, 2},
         wpawn   |-> Abs(FileOf(a) - FileOf(b)) = 1 /\ RankOf(b) - RankOf(a) = 1,
         bpawn   |-> Abs(FileOf(a) - FileOf(b)) = 1 /\ RankOf(b) - RankOf(a) = -1,
         between |-> SquaresBetween(a, b)]]]

Between(a, b) == Geometry[a][b].between

Clear(place, a, b) == \A x \in Between(a, b) : place[x] = NoPiece

\* the piece standing on q attacks square s
PieceAttacks(place, q, s) ==
    LET p == place[q]
        g == Geometry[q][s]
    IN
    CASE p.t = "K" -> g.king
      [] p.t = "N" -> g.knight
      [] p.t = "R" -> g.line /\ Clear(place, q, s)
      [] p.t = "B" -> g.diag /\ Clear(place, q, s)
      [] p.t = "Q" -> (g.line \/ g.diag) /\ Clear(place, q, s)
      [] p.t = "P" -> IF p.c = WHITE THEN g.wpawn ELSE g.bpawn
      [] OTHER -> FALSE

IsAttackedBy(place, c, s) ==
    \E q \in Squares : place[q].c = c /\ PieceAttacks(place, q, s)

KingSquares(place, c) == {s \in Squares : place[s] = Pc("K", c)}

\* Board.is_check(): the side to move has its king attacked
IsCheck(pos) ==
    \E k \in KingSquares(pos.place, pos.turn) :
        IsAttackedBy(pos.place, Other(pos.turn), k)

---------------------------------------------------------------------------
(* Board.push / Board.pop, as the library does them *)

Last(q) == q[Len(q)]
Front(q) == SubSeq(q, 1, Len(q) - 1)

\* Board.clean_castling_rights(): a right needs its rook and its king at home
CleanCastling(pos) ==
    {r \in pos.castling :
        \E c \in {WHITE, BLACK} :
            /\ r = RookHome(c)
            /\ pos.place[r] = Pc("R", c)
            /\ pos.place[KingHome(c)] = Pc("K", c)}

\* Board._to_chess960(): a king leaving its home for the castling square is
\* read as king-takes-rook
ToChess960(pos, m) ==
    IF \E c \in {WHITE, BLACK} :
           /\ m.from = KingHome(c)
           /\ pos.place[m.from].t = "K"
           /\ m.to = CastleKingTo(c)
           /\ pos.place[m.to].t # "R"
    THEN Mv(m.from, RookHome(IF m.from = KingHome(WHITE) THEN WHITE ELSE BLACK), NoPromotion)
    ELSE m

\* Board.is_zeroing(move)
IsZeroing(pos, m) ==
    \/ pos.place[m.from].t = "P"
    \/ pos.place[m.to].t = "P"
    \/ pos.place[m.from].c = Other(pos.turn)
    \/ pos.place[m.to].c = Other(pos.turn)

\* the position after Board.push(m0); push does not test legality
PushPos(pos, m0) ==
    LET m       == ToChess960(pos, m0)
        mover   == pos.place[m.from]
        ptype   == IF m.promotion # NoPromotion THEN m.promotion ELSE mover.t
        castle  == mover.t = "K" /\ m.promotion = NoPromotion
                     /\ pos.place[m.to].c = pos.turn
        rights0 == CleanCastling(pos) \ {m.from, m.to}
        rights  == IF mover.t = "K"
                     THEN rights0 \ {RookHome(pos.turn)}
                     ELSE IF pos.place[m.to].t = "K"
                            THEN rights0 \ {RookHome(Other(pos.turn))}
                            ELSE rights0
        place1  == IF castle
                     THEN [s \in Squares |->
                             CASE s = CastleKingTo(pos.turn) -> Pc("K", pos.turn)
                               [] s = CastleRookTo(pos.turn) -> Pc("R", pos.turn)
                               [] s = m.from \/ s = m.to     -> NoPiece
                               [] OTHER                      -> pos.place[s]]
                     ELSE [s \in Squares |->
                             CASE s = m.to   -> Pc(ptype, pos.turn)
                               [] s = m.from -> NoPiece
                               [] OTHER      -> pos.place[s]]
    IN  [place    |-> place1,
         turn     |-> Other(pos.turn),
         castling |-> rights,
         halfmove |-> IF IsZeroing(pos, m) THEN 0 ELSE pos.halfmove + 1,
         fullmove |-> IF pos.turn = BLACK THEN pos.fullmove + 1 ELSE pos.fullmove]

\* push asserts that a piece stands on the from-square
PushRaises(pos, m) == pos.place[ToChess960(pos, m).from] = NoPiece

Push(b, m) ==
    [pos        |-> PushPos(b.pos, m),
     move_stack |-> Append(b.move_stack, m),
     stack      |-> Append(b.stack, b.pos)]

\* mutant: pop drops the stacks but leaves the position as it is
Pop_KeepsPosition(b) ==
    [pos        |-> b.pos,
     move_stack |-> Front(b.move_stack),
     stack      |-> Front(b.stack)]

\* Board.pop(): restores the state saved by the matching push
Pop(b) ==
    [pos        |-> Last(b.stack),
     move_stack |-> Front(b.move_stack),
     stack      |-> Front(b.stack)]

---------------------------------------------------------------------------
(* Board.legal_moves *)

PromoSet(pos, q, s) ==
    IF pos.place[q].t = "P" /\ RankOf(s) = LastRank(pos.turn)
    THEN PromotionPieces ELSE {NoPromotion}

\* a piece step or capture, promotion left aside
StepOk(pos, q, s) ==
    LET c == pos.turn
        P == pos.place
    IN  IF P[q].t = "P"
        THEN \/ s = q + Forward(c) /\ P[s] = NoPiece
             \/ PieceAttacks(P, q, s) /\ P[s].c = Other(c)
        ELSE PieceAttacks(P, q, s) /\ P[s].c # c

PseudoLegalSteps(pos) ==
    LET own   == {q \in Squares : pos.place[q].c = pos.turn}
        steps == {st \in {<<q, s>> : q \in own, s \in Squares} : StepOk(pos, st[1], st[2])}
    IN  UNION {{Mv(st[1], st[2], p) : p \in PromoSet(pos, st[1], st[2])} : st \in steps}

\* Board.generate_castling_moves()
CastlingMoves(pos) ==
    LET c == pos.turn
        k == KingHome(c)
        r == RookHome(c)
    IN  IF /\ r \in CleanCastling(pos)
           /\ Clear(pos.place, k, r)
           /\ \A s \in (Between(k, CastleKingTo(c)) \cup {k, CastleKingTo(c)}) :
                  ~IsAttackedBy(pos.place, Other(c), s)
        THEN {Mv(k, CastleKingTo(c), NoPromotion)}
        ELSE {}

\* Board.is_into_check(move)
IntoCheck(pos, m) ==
    LET after == PushPos(pos, m).place
    IN  \E k \in KingSquares(after, pos.turn) :
            IsAttackedBy(after, Other(pos.turn), k)

LegalMoves(pos) ==
    LET pseudo == {m : m \in PseudoLegalSteps(pos)}
    IN  {m : m \in {x \in pseudo : ~IntoCheck(pos, x)} \cup CastlingMoves(pos)}

---------------------------------------------------------------------------
(* Move text: Board.parse_san and Move.from_uci *)

NoCoord == -1

\* SAN text, by the groups the library's SAN pattern reads from it:
\* piece letter ("-" when absent), from-file, from-rank, to-square, promotion
San(pc, ff, fr, to, pr) ==
    [kind |-> "san", piece |-> pc, ffile |-> ff, frank |-> fr, to |-> to, promotion |-> pr]
SanCastleShort == [kind |-> "O-O"]
SanCastleLong  == [kind |-> "O-O-O"]
SanGarbage     == [kind |-> "garbage"]

Parsed(m) == [ok |-> TRUE, move |-> m, msg |-> ""]
ValueError(msg) == [ok |-> FALSE, move |-> Mv(0, 0, NoPromotion), msg |-> msg]

\* Board.is_castling(move): a king moving more than one file, or onto its own rook
IsCastling(pos, m) ==
    /\ pos.place[m.from].t = "K"
    /\ \/ Abs(FileOf(m.from) - FileOf(m.to)) > 1
       \/ pos.place[m.to] = Pc("R", pos.turn)

\* Board.find_move(from, to, promotion)
FindMove(pos, legal, from, to, pr) ==
    LET pr1 == IF pr = NoPromotion /\ pos.place[from].t = "P" /\ RankOf(to) \in {0, 3}
               THEN "Q" ELSE pr
        m   == Mv(from, to, pr1)
    IN  IF m \in legal THEN Parsed(m) ELSE ValueError("illegal san")

\* Board.parse_san(text): the one legal move the text matches, else ValueError
\* (InvalidMoveError, IllegalMoveError, AmbiguousMoveError)
parse_san(pos, legal, text) ==
    CASE text.kind = "garbage" -> ValueError("invalid san")
      [] text.kind = "O-O" ->
            IF \E m \in legal : IsCastling(pos, m)
            THEN Parsed(CHOOSE m \in legal : IsCastling(pos, m))
            ELSE ValueError("illegal san")
      [] text.kind = "O-O-O" -> ValueError("illegal san")
      [] OTHER ->
            IF text.piece = "-" /\ text.ffile # NoCoord /\ text.frank # NoCoord
            THEN LET found == FindMove(pos, legal, Sq(text.ffile, text.frank), text.to, text.promotion)
                 IN  IF found.ok /\ found.move.promotion = text.promotion
                     THEN found ELSE ValueError("illegal san")
            ELSE
            LET want == IF text.piece = "-" THEN "P" ELSE text.piece
                matches ==
                    {m \in legal :
                        /\ m.to = text.to
                        /\ m.promotion = text.promotion
                        /\ pos.place[m.from].t = want
                        /\ ~IsCastling(pos, m)
                        /\ text.ffile # NoCoord => FileOf(m.from) = text.ffile
                        /\ text.frank # NoCoord => RankOf(m.from) = text.frank
                        /\ (text.piece = "-" /\ text.ffile = NoCoord)
                              => FileOf(m.from) = FileOf(text.to)}
            IN  CASE matches = {} -> ValueError("illegal san")
                  [] Cardinality(matches) > 1 -> ValueError("ambiguous san")
                  [] OTHER -> Parsed(CHOOSE m \in matches : TRUE)

\* UCI text: well-formed coordinates, or anything else
Uci(f, t, p) == [kind |-> "uci", from |-> f, to |-> t, promotion |-> p]
UciGarbage == [kind |-> "garbage"]

\* chess.Move.from_uci(text)
from_uci(text) ==
    IF text.kind = "uci" /\ text.from # text.to
    THEN Parsed(Mv(text.from, text.to, text.promotion))
    ELSE ValueError("invalid uci")

\* the texts tried in a position: every legal move written with and without its
\* from-file, and a fixed list of other texts (legal in some positions only)
Letter(t) == IF t = "P" THEN "-" ELSE t

FixedSan ==
    {SanGarbage, SanCastleShort, SanCastleLong,
     San("R", NoCoord, NoCoord, 7, NoPromotion),
     San("K", NoCoord, NoCoord, 1, NoPromotion),
     San("K", NoCoord, NoCoord, 2, NoPromotion),
     San("-", NoCoord, NoCoord, 10, NoPromotion),
     San("-", NoCoord, NoCoord, 13, NoPromotion),
     San("-", 2, 1, 10, NoPromotion),
     San("-", 0, 0, 2, NoPromotion),
     San("-", 1, 2, 13, NoPromotion),
     San("N", NoCoord, NoCoord, 5, NoPromotion)}

SanInputs(pos, legal) ==
    {San(Letter(pos.place[m.from].t), NoCoord, NoCoord, m.to, m.promotion) : m \in legal}
    \cup {San(Letter(pos.place[m.from].t), FileOf(m.from), NoCoord, m.to, m.promotion) : m \in legal}
    \cup FixedSan

FixedUci ==
    {UciGarbage,
     Uci(0, 0, NoPromotion), Uci(0, 2, NoPromotion), Uci(12, 14, NoPromotion),
     Uci(6, 10, NoPromotion), Uci(6, 14, NoPromotion), Uci(9, 5, NoPromotion),
     Uci(3, 7, NoPromotion), Uci(4, 7, NoPromotion), Uci(0, 1, "Q"),
     Uci(9, 13, NoPromotion), Uci(9, 13, "Q"), Uci(9, 13, "K"), Uci(10, 14, "Q")}

UciInputs(legal) ==
    {Uci(m.from, m.to, m.promotion) : m \in legal} \cup FixedUci

---------------------------------------------------------------------------
(* GameTracker: the move ledger *)

\* what a call left behind: its name, whether it raised, its return value and
\* the message it printed
Ret(op, raised, val, msg) == [op |-> op, raised |-> raised, val |-> val, msg |-> msg]

\* history of the apply/undo round trip: the state each apply reached
NoteApplied ==
    /\ trail' = Append(SubSeq(trail, 1, Len(trail) - undone),
                       [board |-> board', move_history |-> move_history'])
    /\ undone' = 0

\* mutant: the accepted move is pushed on the board but not appended to the ledger
make_move_NoAppend(legal_moves, move_str) ==
    \E r \in {parse_san(board.pos, legal_moves, move_str)} :
    /\ IF r.ok /\ r.move \in legal_moves
       THEN /\ board' = Push(board, r.move)
            /\ move_history' = move_history
            /\ NoteApplied
            /\ ret' = Ret("make_move", FALSE, TRUE, "")
       ELSE /\ UNCHANGED ledgerVars
            /\ ret' = Ret("make_move", FALSE, FALSE, r.msg)
    /\ UNCHANGED engineVars

make_move(legal_moves, move_str) ==
    \E r \in {parse_san(board.pos, legal_moves, move_str)} :
    /\ IF r.ok
       THEN IF r.move \in legal_moves
            THEN /\ board' = Push(board, r.move)
                 /\ move_history' = Append(move_history, r.move)
                 /\ NoteApplied
                 /\ ret' = Ret("make_move", FALSE, TRUE, "")
            ELSE /\ UNCHANGED ledgerVars
                 /\ ret' = Ret("make_move", FALSE, FALSE, "Illegal move")
       ELSE /\ UNCHANGED ledgerVars
            /\ ret' = Ret("make_move", FALSE, FALSE, r.msg)
    /\ UNCHANGED engineVars

\* mutant: the move is pushed before it is tested for legality
make_move_uci_PushFirst(legal_moves, uci_move) ==
    \E r \in {from_uci(uci_move)} :
    /\ IF r.ok /\ board.pos.place[r.move.from] # NoPiece
       THEN IF r.move \in legal_moves
            THEN /\ board' = Push(board, r.move)
                 /\ move_history' = Append(move_history, r.move)
                 /\ NoteApplied
                 /\ ret' = Ret("make_move_uci", FALSE, TRUE, "")
            ELSE /\ board' = Push(board, r.move)
                 /\ UNCHANGED <<move_history, trail, undone>>
                 /\ ret' = Ret("make_move_uci", FALSE, FALSE, "Illegal move")
       ELSE /\ UNCHANGED ledgerVars
            /\ ret' = Ret("make_move_uci", FALSE, FALSE, r.msg)
    /\ UNCHANGED engineVars

make_move_uci(legal_moves, uci_move) ==
    \E r \in {from_uci(uci_move)} :
    /\ IF r.ok
       THEN IF r.move \in legal_moves
            THEN /\ board' = Push(board, r.move)
                 /\ move_history' = Append(move_history, r.move)
                 /\ NoteApplied
                 /\ ret' = Ret("make_move_uci", FALSE, TRUE, "")
            ELSE /\ UNCHANGED ledgerVars
                 /\ ret' = Ret("make_move_uci", FALSE, FALSE, "Illegal move")
       ELSE /\ UNCHANGED ledgerVars
            /\ ret' = Ret("make_move_uci", FALSE, FALSE, r.msg)
    /\ UNCHANGED engineVars

undo_move ==
    /\ IF move_history # <<>>
       THEN /\ board' = Pop(board)
            /\ move_history' = Front(move_history)
            /\ undone' = undone + 1
            /\ UNCHANGED trail
            /\ ret' = Ret("undo_move", FALSE, TRUE, "")
       ELSE /\ UNCHANGED ledgerVars
            /\ ret' = Ret("undo_move", FALSE, FALSE, "")
    /\ UNCHANGED engineVars

reset_game ==
    /\ board' = NewBoard
    /\ move_history' = <<>>
    /\ trail' = <<>>
    /\ undone' = 0
    /\ ret' = Ret("reset_game", FALSE, TRUE, "")
    /\ UNCHANGED engineVars

RECURSIVE Replay0(_)
\* a fresh chess.Board() with the moves pushed in order: its position
Replay0(moves) ==
    IF moves = <<>> THEN StartPos ELSE PushPos(Replay0(Front(moves)), Last(moves))

---------------------------------------------------------------------------
(* GameTracker.get_game_statistics *)

\* Board.is_capture: an opposing piece on a square the move touches (the small
\* board has no en passant)
IsCapture(pos, m) ==
    \E q \in {m.from, m.to} \ ({m.from} \cap {m.to}) :
        pos.place[q] # NoPiece /\ pos.place[q].c = Other(pos.turn)

\* mutant: the rook is valued as a minor piece
PieceValue_RookAsMinor(t) ==
    CASE t = "P" -> 1 [] t = "N" -> 3 [] t = "B" -> 3
      [] t = "R" -> 3 [] t = "Q" -> 9 [] OTHER -> 0

\* game_tracker.py:327-330
PieceValue(t) ==
    CASE t = "P" -> 1 [] t = "N" -> 3 [] t = "B" -> 3
      [] t = "R" -> 5 [] t = "Q" -> 9 [] OTHER -> 0

RECURSIVE SumValues(_, _, _)
SumValues(place, c, sq) ==
    IF sq > 15 THEN 0
    ELSE (IF place[sq] # NoPiece /\ place[sq].c = c THEN PieceValue(place[sq].t) ELSE 0)
         + SumValues(place, c, sq + 1)

\* mutant: every piece is added to White's sum
calculate_material_NoColourTest(b) ==
    LET all == SumValues(b.pos.place, WHITE, 0) + SumValues(b.pos.place, BLACK, 0)
    IN  [white |-> all, black |-> 0, advantage |-> all]

\* game_tracker.py:325-348
calculate_material(b) ==
    LET w == SumValues(b.pos.place, WHITE, 0)
        k == SumValues(b.pos.place, BLACK, 0)
    IN  [white |-> w, black |-> k, advantage |-> w - k]

Tally(pos, captures, checks, castles, promotions) ==
    [pos |-> pos, captures |-> captures, checks |-> checks, castles |-> castles,
     promotions |-> promotions]

RECURSIVE StatsLoop_CaptureAfterPush(_)
\* mutant: the capture test is made after the push, as the castling test is
StatsLoop_CaptureAfterPush(moves) ==
    IF moves = <<>> THEN Tally(StartPos, 0, 0, 0, 0)
    ELSE LET p == StatsLoop_CaptureAfterPush(Front(moves))
             move_obj == Last(moves)
             pushed == PushPos(p.pos, move_obj)
         IN  Tally(pushed,
                   p.captures + (IF IsCapture(pushed, move_obj) THEN 1 ELSE 0),
                   p.checks + (IF IsCheck(pushed) THEN 1 ELSE 0),
                   p.castles + (IF IsCastling(pushed, move_obj) THEN 1 ELSE 0),
                   p.promotions + (IF move_obj.promotion # NoPromotion THEN 1 ELSE 0))

RECURSIVE StatsLoop(_)
\* game_tracker.py:150-169: the loop over the ledger; the capture test reads
\* the board before the push, the check and castling tests the board after it
StatsLoop(moves) ==
    IF moves = <<>> THEN Tally(StartPos, 0, 0, 0, 0)
    ELSE LET p == StatsLoop(Front(moves))
             move_obj == Last(moves)
             pushed == PushPos(p.pos, move_obj)
         IN  Tally(pushed,
                   p.captures + (IF IsCapture(p.pos, move_obj) THEN 1 ELSE 0),
                   p.checks + (IF IsCheck(pushed) THEN 1 ELSE 0),
                   p.castles + (IF IsCastling(pushed, move_obj) THEN 1 ELSE 0),
                   p.promotions + (IF move_obj.promotion # NoPromotion THEN 1 ELSE 0))

\* game_tracker.py:137-171 (game_duration, a reading of the clock, is left out)
get_game_statistics(b, moves) ==
    LET t == StatsLoop(moves) IN
    [total_moves |-> Len(moves), captures |-> t.captures, checks |-> t.checks,
     castles |-> t.castles, promotions |-> t.promotions,
     current_material |-> calculate_material(b)]

GetGameStatistics ==
    /\ ret' = Ret("get_game_statistics", FALSE, get_game_statistics(board, move_history), "")
    /\ UNCHANGED <<ledgerVars, engineVars, saveVars>>

MakeMove ==
    /\ Len(move_history) < MaxMoves
    /\ \E legal_moves \in {LegalMoves(board.pos)} :
           \E t \in SanInputs(board.pos, legal_moves) : make_move(legal_moves, t)
    /\ UNCHANGED saveVars

MakeMoveUci ==
    /\ Len(move_history) < MaxMoves
    /\ \E legal_moves \in {LegalMoves(board.pos)} :
           \E t \in UciInputs(legal_moves) : make_move_uci(legal_moves, t)
    /\ UNCHANGED saveVars

\* the moves of the games that are analysed: the fixed texts only
MakeMoveUciFixed ==
    /\ Len(move_history) < MaxAnalysed
    /\ \E legal_moves \in {LegalMoves(board.pos)} :
           \E t \in FixedUci : make_move_uci(legal_moves, t)
    /\ UNCHANGED saveVars
UndoMove == undo_move /\ UNCHANGED saveVars
ResetGame == reset_game /\ UNCHANGED saveVars

---------------------------------------------------------------------------
(* ChessEngine: the engine adapter *)

\* Evaluations are held in hundredths of a pawn, so that cp / 100.0 and
\* 999.0 - mate_in are integers.
MateBase == 999

NoneVal == [some |-> FALSE, v |-> 0]
Some(x) == [some |-> TRUE, v |-> x]

\* The engine process is outside the program.  What it does during one call is
\* an input of the call: env.failAt is the request that raises (0: none does),
\* env.best, env.score and env.top are what the requests answer.
Cp(v) == [type |-> "cp", value |-> v]
Mate(v) == [type |-> "mate", value |-> v]

Env(failAt, best, score, top) ==
    [failAt |-> failAt, best |-> best, score |-> score, top |-> top]

\* the adapter while a call runs: the handle and the requests made so far
Eng(sf, n) == [sf |-> sf, n |-> n]

\* k requests inside a try block whose handler drops the handle
TryRequests(e, env, k) ==
    IF env.failAt \in (e.n + 1)..(e.n + k)
    THEN [e |-> Eng("None", env.failAt), ok |-> FALSE]
    ELSE [e |-> Eng(e.sf, e.n + k), ok |-> TRUE]

\* whether a request of the call raised, and the message that tells it
Failed(e, env) == env.failAt \in 1..e.n
Msg(e, env) == IF Failed(e, env) THEN "request failed" ELSE ""

is_available(e, env) ==
    IF e.sf = "None"
    THEN [e |-> e, val |-> FALSE]
    ELSE LET r == TryRequests(e, env, 1)
         IN  [e |-> r.e, val |-> r.ok]

get_best_move(e, env) ==
    LET a == is_available(e, env) IN
    IF ~a.val
    THEN [e |-> a.e, val |-> "None"]
    ELSE LET r == TryRequests(a.e, env, 2)
         IN  [e |-> r.e, val |-> IF r.ok THEN env.best ELSE "None"]

\* engine.py:84-92: the raw score on the adapter's scale
\* mutant: the plies to mate are added to the sentinel
Normalize_AddsPlies(score) ==
    CASE score.type = "cp" -> Some(score.value)
      [] score.type = "mate" ->
            IF score.value > 0
            THEN Some(100 * MateBase + 100 * score.value)
            ELSE Some(-100 * MateBase - 100 * score.value)
      [] OTHER -> NoneVal

\* mutant: every mate score takes the positive branch
Normalize_NoSignSplit(score) ==
    CASE score.type = "cp" -> Some(score.value)
      [] score.type = "mate" -> Some(100 * MateBase - 100 * score.value)
      [] OTHER -> NoneVal

Normalize(score) ==
    CASE score.type = "cp" -> Some(score.value)
      [] score.type = "mate" ->
            IF score.value > 0
            THEN Some(100 * MateBase - 100 * score.value)
            ELSE Some(-100 * MateBase - 100 * score.value)
      [] OTHER -> NoneVal

get_evaluation(e, env) ==
    LET a == is_available(e, env) IN
    IF ~a.val
    THEN [e |-> a.e, val |-> NoneVal]
    ELSE LET r == TryRequests(a.e, env, 2)
         IN  [e |-> r.e, val |-> IF r.ok THEN Normalize(env.score) ELSE NoneVal]

\* one entry of the library's top-move list; a malformed entry lacks a key
TopEntry(mv, cp, mate) == [ok |-> TRUE, Move |-> mv, Centipawn |-> cp, Mate |-> mate]
BadEntry == [ok |-> FALSE, Move |-> "None", Centipawn |-> NoneVal, Mate |-> NoneVal]

MoveData(info) ==
    [move |-> info.Move, evaluation |-> info.Centipawn, mate |-> info.Mate]

\* the first malformed entry of the list, 0 when there is none
FirstBad(top) ==
    IF \E i \in 1..Len(top) : ~top[i].ok
    THEN CHOOSE i \in 1..Len(top) : ~top[i].ok /\ \A j \in 1..(i - 1) : top[j].ok
    ELSE 0

\* mutant: the handler returns what the loop had built
get_top_moves_Partial(e, env) ==
    LET a == is_available(e, env) IN
    IF ~a.val
    THEN [e |-> a.e, val |-> <<>>, why |-> Msg(a.e, env)]
    ELSE LET r == TryRequests(a.e, env, 2)
             bad == FirstBad(env.top)
         IN  IF ~r.ok
             THEN [e |-> r.e, val |-> <<>>, why |-> "request failed"]
             ELSE IF bad # 0
                  THEN [e |-> Eng("None", r.e.n),
                        val |-> [i \in 1..(bad - 1) |-> MoveData(env.top[i])],
                        why |-> IF bad > 1 THEN "failed midway" ELSE "request failed"]
                  ELSE [e |-> r.e,
                        val |-> [i \in 1..Len(env.top) |-> MoveData(env.top[i])],
                        why |-> ""]

get_top_moves(e, env) ==
    LET a == is_available(e, env) IN
    IF ~a.val
    THEN [e |-> a.e, val |-> <<>>, why |-> Msg(a.e, env)]
    ELSE LET r == TryRequests(a.e, env, 2)
             bad == FirstBad(env.top)
         IN  IF ~r.ok
             THEN [e |-> r.e, val |-> <<>>, why |-> "request failed"]
             ELSE IF bad # 0
                  THEN [e |-> Eng("None", r.e.n), val |-> <<>>,
                        why |-> IF bad > 1 THEN "failed midway" ELSE "request failed"]
                  ELSE [e |-> r.e,
                        val |-> [i \in 1..Len(env.top) |-> MoveData(env.top[i])],
                        why |-> ""]

\* engine.py:100-120
analyze_position(e, env) ==
    LET a == is_available(e, env) IN
    IF ~a.val
    THEN [e |-> a.e, error |-> TRUE, best_move |-> "None", evaluation |-> NoneVal,
          top_moves |-> <<>>]
    ELSE LET b == get_best_move(a.e, env)
             v == get_evaluation(b.e, env)
             t == get_top_moves(v.e, env)
         IN  [e |-> t.e, error |-> FALSE, best_move |-> b.val, evaluation |-> v.val,
              top_moves |-> t.val]

\* engine.py:263: an evaluation above this magnitude is shown as a mate
MateBand == 900

\* int(): hundredths to whole pawns by truncation toward zero
Int100(h) == IF h >= 0 THEN h \div 100 ELSE -((-h) \div 100)

\* mutant: the distance is taken from the signed evaluation
EvaluationLine_SignedDistance(evaluation) ==
    IF ~evaluation.some
    THEN [kind |-> "none", color |-> "-", n |-> 0]
    ELSE IF Abs(evaluation.v) > 100 * MateBand
         THEN [kind  |-> "mate",
               color |-> IF evaluation.v > 0 THEN "White" ELSE "Black",
               n     |-> Int100(100 * MateBase - evaluation.v)]
         ELSE [kind |-> "cp", color |-> "-", n |-> evaluation.v]

\* engine.py:260-268: the evaluation line of the analysis text
EvaluationLine(evaluation) ==
    IF ~evaluation.some
    THEN [kind |-> "none", color |-> "-", n |-> 0]
    ELSE IF Abs(evaluation.v) > 100 * MateBand
         THEN [kind  |-> "mate",
               color |-> IF evaluation.v > 0 THEN "White" ELSE "Black",
               n     |-> Int100(100 * MateBase - Abs(evaluation.v))]
         ELSE [kind |-> "cp", color |-> "-", n |-> evaluation.v]

\* engine.py:234-281: the text, by its parts
get_move_analysis_text(e, env) ==
    LET a == is_available(e, env) IN
    IF ~a.val
    THEN [e |-> a.e, val |-> [kind |-> "Engine not available for analysis."]]
    ELSE LET an == analyze_position(a.e, env) IN
         IF an.error
         THEN [e |-> an.e, val |-> [kind |-> "Engine not available"]]
         ELSE [e |-> an.e,
               val |-> [kind |-> "analysis",
                        best |-> an.best_move,
                        evaluation |-> EvaluationLine(an.evaluation),
                        alternatives |-> IF Len(an.top_moves) > 1
                                         THEN Len(an.top_moves) - 1 ELSE 0]]

\* engine.py:169-181: set_depth and set_time are sent outside any try block
configure(e, env) ==
    LET a == is_available(e, env) IN
    IF ~a.val
    THEN [e |-> a.e, raised |-> FALSE]
    ELSE IF env.failAt \in (a.e.n + 1)..(a.e.n + 2)
         THEN [e |-> Eng(a.e.sf, env.failAt), raised |-> TRUE]
         ELSE [e |-> Eng(a.e.sf, a.e.n + 2), raised |-> FALSE]

configure_for_game_analysis(e, env) == configure(e, env)
configure_for_deep_analysis(e, env) == configure(e, env)

\* engine.py:183-197: the request is guarded, its failure only printed
set_skill_level(e, env) ==
    LET a == is_available(e, env) IN
    IF ~a.val
    THEN [e |-> a.e, raised |-> FALSE]
    ELSE [e |-> Eng(a.e.sf, a.e.n + 1), raised |-> FALSE]

\* the places an engine can be started from, and the world outside: which of
\* them exist as files, which start an engine, whether set_depth is answered
Paths == {"configured", "project", "stockfish"}
World(exists, starts, depthOk) == [exists |-> exists, starts |-> starts, depthOk |-> depthOk]
Worlds == {World(x, s, d) : x \in SUBSET Paths, s \in SUBSET Paths, d \in BOOLEAN}

\* engine.py:294-329; called with the handle None
initialize_engine(path, w) ==
    LET from == IF path # "None" /\ path \in w.exists THEN path
                ELSE IF "project" \in w.exists THEN "project"
                ELSE "stockfish"
        started == from \in w.starts
    IN  [sf    |-> IF started /\ w.depthOk THEN "Stockfish" ELSE "None",
         path  |-> IF started THEN from ELSE path,
         tried |-> from]

\* mutant: the result of the restart is reported the wrong way round
recover_engine_Inverted(sf, path, w) ==
    IF sf # "None"
    THEN [sf |-> sf, path |-> path, val |-> TRUE, tried |-> ""]
    ELSE LET r == initialize_engine(path, w)
         IN  [sf |-> r.sf, path |-> r.path, val |-> r.sf = "None", tried |-> r.tried]

\* engine.py:331-338
recover_engine(sf, path, w) ==
    IF sf # "None"
    THEN [sf |-> sf, path |-> path, val |-> TRUE, tried |-> ""]
    ELSE LET r == initialize_engine(path, w)
         IN  [sf |-> r.sf, path |-> r.path, val |-> r.sf # "None", tried |-> r.tried]

\* engine.py:283-290
close(sf) == "None"

---------------------------------------------------------------------------
(* What the engine is made to answer *)

MaxMate == 5
MaxTop == 2
MaxFailAt == 11

CpValues ==
    {-100050, -99400, -99399, -90001, -90000, -210, -1, 0, 1, 30, 90000, 90001,
     99399, 99400, 100050}
\* the plies to mate: the near ones and those at the edge of the mate band
MateValues == ((-MaxMate)..MaxMate) \cup {-99, -98, 98, 99}
RawScores == {Cp(v) : v \in CpValues} \cup {Mate(v) : v \in MateValues}
FewScores == {Cp(30), Mate(2), Mate(-3)}
Bests == {"e2e4", "None"}

TopEntries == {TopEntry("e2e4", Some(30), NoneVal), TopEntry("d2d4", NoneVal, Some(1)), BadEntry}
FewEntries == {TopEntry("e2e4", Some(30), NoneVal), BadEntry}
ListsOf(entries) == UNION {[1..n -> entries] : n \in 0..MaxTop}

FailEnvs(k) == {Env(f, "None", Cp(0), <<>>) : f \in 0..k}
BestEnvs == {Env(f, b, Cp(0), <<>>) : f \in 0..3, b \in Bests}
ScoreEnvs(scores) == {Env(f, "None", sc, <<>>) : f \in 0..3, sc \in scores}
TopEnvs(entries) == {Env(f, "None", Cp(0), t) : f \in 0..3, t \in ListsOf(entries)}
FullEnvs ==
    {Env(f, b, sc, t) : f \in 0..MaxFailAt, b \in Bests, sc \in FewScores, t \in ListsOf(FewEntries)}

---------------------------------------------------------------------------
(* ChessEngine: the calls *)

Eng0 == Eng(stockfish, 0)

EngineCall(op, e, raised, val, msg) ==
    /\ constructed
    /\ stockfish' = e.sf
    /\ ret' = Ret(op, raised, val, msg)
    /\ UNCHANGED <<constructed, engine_path, ledgerVars, saveVars>>

\* what a startup answers, with the world it met
StartupRet(op, val, tried, w) ==
    [op |-> op, raised |-> FALSE, val |-> val, msg |-> tried, world |-> w]

\* engine.py:11-24: the constructor's startup
Construct(worlds) ==
    /\ ~constructed
    /\ \E w \in worlds :
        LET r == initialize_engine(engine_path, w) IN
        /\ stockfish' = r.sf
        /\ engine_path' = r.path
        /\ ret' = StartupRet("__init__", r.sf # "None", r.tried, w)
    /\ constructed' = TRUE
    /\ UNCHANGED <<ledgerVars, saveVars>>

RecoverEngine(worlds) ==
    /\ constructed
    /\ \E w \in worlds :
        LET r == recover_engine(stockfish, engine_path, w) IN
        /\ stockfish' = r.sf
        /\ engine_path' = r.path
        /\ ret' = StartupRet("recover_engine", r.val, r.tried, w)
    /\ UNCHANGED <<constructed, ledgerVars, saveVars>>

Close ==
    /\ constructed
    /\ stockfish' = close(stockfish)
    /\ ret' = Ret("close", FALSE, "None", "")
    /\ UNCHANGED <<constructed, engine_path, ledgerVars, saveVars>>

IsAvailable ==
    \E env \in FailEnvs(1) :
        LET r == is_available(Eng0, env)
        IN  EngineCall("is_available", r.e, FALSE, r.val, Msg(r.e, env))

GetBestMove ==
    \E env \in BestEnvs :
        LET r == get_best_move(Eng0, env)
        IN  EngineCall("get_best_move", r.e, FALSE, r.val, Msg(r.e, env))

GetEvaluation(scores) ==
    \E env \in ScoreEnvs(scores) :
        LET r == get_evaluation(Eng0, env)
        IN  EngineCall("get_evaluation", r.e, FALSE, r.val, Msg(r.e, env))

GetTopMoves(entries) ==
    \E env \in TopEnvs(entries) :
        LET r == get_top_moves(Eng0, env)
        IN  EngineCall("get_top_moves", r.e, FALSE, r.val, r.why)

AnalyzePosition ==
    \E env \in FullEnvs :
        LET r == analyze_position(Eng0, env)
        IN  EngineCall("analyze_position", r.e, FALSE,
                       [error |-> r.error, best_move |-> r.best_move,
                        evaluation |-> r.evaluation, top_moves |-> r.top_moves],
                       IF r.e.sf # stockfish THEN "request failed" ELSE "")

GetMoveAnalysisText ==
    \E env \in FullEnvs :
        LET r == get_move_analysis_text(Eng0, env)
        IN  EngineCall("get_move_analysis_text", r.e, FALSE, r.val,
                       IF r.e.sf # stockfish THEN "request failed" ELSE "")

ConfigureForGameAnalysis ==
    \E env \in FailEnvs(3) :
        LET r == configure_for_game_analysis(Eng0, env)
        IN  EngineCall("configure_for_game_analysis", r.e, r.raised, "None", Msg(r.e, env))

ConfigureForDeepAnalysis ==
    \E env \in FailEnvs(3) :
        LET r == configure_for_deep_analysis(Eng0, env)
        IN  EngineCall("configure_for_deep_analysis", r.e, r.raised, "None", Msg(r.e, env))

SetSkillLevel ==
    \E env \in FailEnvs(2) :
        LET r == set_skill_level(Eng0, env)
        IN  EngineCall("set_skill_level", r.e, r.raised, "None", Msg(r.e, env))

---------------------------------------------------------------------------
(* GameTracker.analyze_game_quality *)

\* Board.fen(): the position in text
Fen(pos) ==
    [placement |-> pos.place, turn |-> pos.turn, castling |-> CleanCastling(pos),
     halfmove |-> pos.halfmove, fullmove |-> pos.fullmove]

\* game_tracker.py:221-230: the tier bounds, in hundredths of a pawn
ExcellentMax == -200
GoodMax == 50
InaccuracyMax == 100
MistakeMax == 200

\* mutant: the bounds belong to the tier above
Tier_StrictBounds(loss) ==
    IF loss < ExcellentMax THEN "excellent"
    ELSE IF loss < GoodMax THEN "good"
    ELSE IF loss < InaccuracyMax THEN "inaccuracy"
    ELSE IF loss < MistakeMax THEN "mistake"
    ELSE "blunder"

Tier(loss) ==
    IF loss <= ExcellentMax THEN "excellent"
    ELSE IF loss <= GoodMax THEN "good"
    ELSE IF loss <= InaccuracyMax THEN "inaccuracy"
    ELSE IF loss <= MistakeMax THEN "mistake"
    ELSE "blunder"

Unavailable ==
    [error |-> TRUE, total_moves |-> 0, blunders |-> 0, mistakes |-> 0,
     inaccuracies |-> 0, excellent_moves |-> 0, average_centipawn_loss |-> 0]

Report(n, tiers, total_loss, move_count) ==
    [error |-> FALSE, total_moves |-> n,
     blunders |-> Cardinality({i \in DOMAIN tiers : tiers[i] = "blunder"}),
     mistakes |-> Cardinality({i \in DOMAIN tiers : tiers[i] = "mistake"}),
     inaccuracies |-> Cardinality({i \in DOMAIN tiers : tiers[i] = "inaccuracy"}),
     excellent_moves |-> Cardinality({i \in DOMAIN tiers : tiers[i] = "excellent"}),
     average_centipawn_loss |-> IF move_count > 0 THEN total_loss \div move_count ELSE 0]

\* what the call did besides its return value: the positions it sent to the
\* engine, the evaluations it got, and the moves it classified
Trace(evaluated, before, after, tiers, losses) ==
    [evaluated |-> evaluated, eval_before |-> before, eval_after |-> after,
     tiers |-> tiers, losses |-> losses]
NoTrace == Trace(<<>>, NoneVal, NoneVal, <<>>, <<>>)

AEnv(failAt, before, after) == [failAt |-> failAt, before |-> before, after |-> after]

\* mutant: a missing evaluation is taken as 0.0 and the move is classified
AnalyzeLast_CountsMissing(e, env, moves) ==
    LET move_obj   == Last(moves)
        pos_before == Fen(StartPos)
        pos_after  == Fen(PushPos(StartPos, move_obj))
        b == get_evaluation(e, Env(env.failAt, "None", env.before, <<>>))
        a == get_evaluation(b.e, Env(env.failAt, "None", env.after, <<>>))
        both == TRUE
        loss == IF PushPos(StartPos, move_obj).turn = BLACK
                THEN b.val.v - a.val.v
                ELSE a.val.v - b.val.v
        tiers  == IF both THEN <<Tier(loss)>> ELSE <<>>
        losses == IF both THEN <<loss>> ELSE <<>>
    IN  [e |-> a.e, raised |-> FALSE,
         val |-> Report(Len(moves), tiers, IF both THEN Abs(loss) ELSE 0,
                        IF both THEN 1 ELSE 0),
         trace |-> Trace(<<pos_before, pos_after>>, b.val, a.val, tiers, losses)]

\* game_tracker.py:197-230, which stand after the loop of lines 191-195: they
\* run once, on the initial board and the last move of the ledger
AnalyzeLast(e, env, moves) ==
    LET move_obj   == Last(moves)
        pos_before == Fen(StartPos)
        pos_after  == Fen(PushPos(StartPos, move_obj))
        b == get_evaluation(e, Env(env.failAt, "None", env.before, <<>>))
        a == get_evaluation(b.e, Env(env.failAt, "None", env.after, <<>>))
        both == b.val.some /\ a.val.some
        loss == IF PushPos(StartPos, move_obj).turn = BLACK
                THEN b.val.v - a.val.v
                ELSE a.val.v - b.val.v
        tiers  == IF both THEN <<Tier(loss)>> ELSE <<>>
        losses == IF both THEN <<loss>> ELSE <<>>
    IN  [e |-> a.e, raised |-> FALSE,
         val |-> Report(Len(moves), tiers, IF both THEN Abs(loss) ELSE 0,
                        IF both THEN 1 ELSE 0),
         trace |-> Trace(<<pos_before, pos_after>>, b.val, a.val, tiers, losses)]

\* mutant: the availability test is left out
analyze_game_quality_NoGuard(e, env, moves) ==
    IF moves = <<>> \/ PushRaises(StartPos, Last(moves))
    THEN [e |-> e, raised |-> TRUE, val |-> Unavailable, trace |-> NoTrace]
    ELSE AnalyzeLast(e, env, moves)

\* game_tracker.py:173-235
analyze_game_quality(e, env, moves) ==
    LET avail == is_available(e, Env(env.failAt, "None", env.before, <<>>)) IN
    IF ~avail.val
    THEN [e |-> avail.e, raised |-> FALSE, val |-> Unavailable, trace |-> NoTrace]
    ELSE IF moves = <<>>
         \* line 201 reads move_obj, which the loop never bound
         THEN [e |-> avail.e, raised |-> TRUE, val |-> Unavailable, trace |-> NoTrace]
         ELSE IF PushRaises(StartPos, Last(moves))
              \* push asserts a piece on the from-square
              THEN [e |-> avail.e, raised |-> TRUE, val |-> Unavailable, trace |-> NoTrace]
              ELSE AnalyzeLast(avail.e, env, moves)

\* the engine's two answers: losses on and next to each tier bound
BeforeScores == {Cp(0), Cp(30)}
AfterScores ==
    {Cp(201), Cp(200), Cp(-50), Cp(-51), Cp(-100), Cp(-101), Cp(-200), Cp(-201),
     Cp(-210), Mate(2)}
AnalysisEnvs == {AEnv(f, b, a) : f \in 0..7, b \in BeforeScores, a \in AfterScores}

AnalyzeGameQuality ==
    /\ constructed
    /\ \E env \in AnalysisEnvs :
        LET r == analyze_game_quality(Eng0, env, move_history) IN
        /\ stockfish' = r.e.sf
        /\ ret' = Ret("analyze_game_quality", r.raised, [report |-> r.val, trace |-> r.trace],
                      IF env.failAt \in 1..r.e.n THEN "request failed" ELSE "")
    /\ UNCHANGED <<constructed, engine_path, ledgerVars, saveVars>>

---------------------------------------------------------------------------
(* GameTracker: move list, result and exports *)

\* Board.san(move): the move written for the position, by the groups of San
\* (the capture mark and the check suffix are not among them)
SanAmong(pos, m, others) ==
    IF IsCastling(pos, m) THEN SanCastleShort
    ELSE LET t == pos.place[m.from].t
             sameRank == \E x \in others : RankOf(x.from) = RankOf(m.from)
             sameFile == \E x \in others : FileOf(x.from) = FileOf(m.from)
             column == others # {} /\ (sameRank \/ ~sameFile)
             row == others # {} /\ sameFile
         IN  IF t = "P"
             THEN San("-", IF FileOf(m.from) # FileOf(m.to) THEN FileOf(m.from) ELSE NoCoord,
                      NoCoord, m.to, m.promotion)
             ELSE San(t, IF column THEN FileOf(m.from) ELSE NoCoord,
                      IF row THEN RankOf(m.from) ELSE NoCoord, m.to, m.promotion)

\* the other legal moves of a piece of the same kind to the same square
BoardSan(pos, m) ==
    SanAmong(pos, m, {x \in LegalMoves(pos) :
                        /\ x.to = m.to /\ x.from # m.from
                        /\ pos.place[x.from].t = pos.place[m.from].t})

RECURSIVE SanList_PushFirst(_)
\* mutant: each move is pushed on the temporary board before it is written
SanList_PushFirst(moves) ==
    IF moves = <<>> THEN <<>>
    ELSE Append(SanList_PushFirst(Front(moves)), BoardSan(Replay0(moves), Last(moves)))

RECURSIVE SanList(_)
\* the loop of get_move_history_san over a board of its own
SanList(moves) ==
    IF moves = <<>> THEN <<>>
    ELSE Append(SanList(Front(moves)), BoardSan(Replay0(Front(moves)), Last(moves)))

Answer(b, moves, raised, val, msg) ==
    [board |-> b, move_history |-> moves, raised |-> raised, val |-> val, msg |-> msg]

\* mutant: the game's own board is walked back instead of a copy replayed
get_move_history_san_OnOwnBoard(b, moves) ==
    Answer(IF moves = <<>> THEN b ELSE Pop(b), moves, FALSE, SanList(moves), "")

\* game_tracker.py:125-133
get_move_history_san(b, moves) == Answer(b, moves, FALSE, SanList(moves), "")

\* Board.is_insufficient_material, for the pieces of the small board
InsufficientMaterial(place) ==
    /\ \A q \in Squares : place[q].t \notin {"P", "R", "Q"}
    /\ Cardinality({q \in Squares : place[q].t \in {"N", "B"}}) <= 1

\* mutant: the side to move is named the winner of a checkmate
ResultWhen_MoverWins(pos, stuck) ==
    IF stuck /\ IsCheck(pos)
    THEN IF pos.turn = WHITE THEN "1-0" ELSE "0-1"
    ELSE IF (stuck /\ ~IsCheck(pos)) \/ InsufficientMaterial(pos.place)
         THEN "1/2-1/2"
         ELSE "*"

\* game_tracker.py:96-106
ResultWhen(pos, stuck) ==
    IF stuck /\ IsCheck(pos)
    THEN IF pos.turn = WHITE THEN "0-1" ELSE "1-0"
    ELSE IF (stuck /\ ~IsCheck(pos)) \/ InsufficientMaterial(pos.place)
         THEN "1/2-1/2"
         ELSE "*"

get_game_result(pos) == ResultWhen(pos, LegalMoves(pos) = {})

\* the file argument of an export and what open()/write() do with it
Filenames == {"None", "game.pgn"}
FileOutcomes == {"written", "write failed"}

\* mutant: the Result header is never set and keeps the library's "*"
PgnString_DefaultResult(b, moves) ==
    [result |-> "*", moves |-> SanList(moves), token |-> "*"]

\* str(game): the Result header, the moves of the mainline as the exporter
\* writes them from the start position, and the closing token, which the
\* exporter takes from the Result header
PgnString(b, moves) ==
    LET headers == [Result |-> get_game_result(b.pos)]
    IN  [result |-> headers.Result, moves |-> SanList(moves), token |-> headers.Result]

\* game_tracker.py:239-275: the write is not guarded
export_pgn(pgn_string, b, moves, filename, fs) ==
    IF filename # "None" /\ fs = "write failed"
    THEN Answer(b, moves, TRUE, pgn_string, "write failed")
    ELSE Answer(b, moves, FALSE, pgn_string, IF filename # "None" THEN "written" ELSE "")

\* game_tracker.py:350-365: the lines after the loop run once, for the last
\* pair; with no moves they read black_move, which was never bound
format_move_history_for_report(history) ==
    IF history = <<>>
    THEN [raised |-> TRUE, lines |-> <<>>]
    ELSE LET i == 2 * ((Len(history) - 1) \div 2)
             line == [move_num |-> (i \div 2) + 1,
                      white_move |-> history[i + 1],
                      black_move |-> IF i + 2 <= Len(history)
                                     THEN history[i + 2] ELSE SanGarbage]
         IN  [raised |-> FALSE, lines |-> <<line>>]

\* the parts of the report that do not come from the engine
ReportParts(b, moves) ==
    [stats |-> get_game_statistics(b, moves),
     result |-> get_game_result(b.pos),
     hist |-> format_move_history_for_report(get_move_history_san(b, moves).val)]

\* game_tracker.py:277-317; e is the engine adapter after the call
export_analysis_report(parts, b, moves, e, env, fs) ==
    LET stats == parts.stats
        quality == analyze_game_quality(e, env, moves)
        hist == parts.hist
        report == [sections |-> <<"CHESS GAME ANALYSIS REPORT", "GAME STATISTICS:",
                                 "MOVE QUALITY ANALYSIS:", "MOVE HISTORY:">>,
                   total_moves |-> stats.total_moves,
                   result |-> parts.result,
                   statistics |-> stats,
                   quality |-> quality.val,
                   history |-> hist.lines]
    IN  IF quality.raised
        THEN [e |-> quality.e, out |-> Answer(b, moves, TRUE, "None", "analysis raised")]
        ELSE IF hist.raised
             THEN [e |-> quality.e, out |-> Answer(b, moves, TRUE, "None", "history raised")]
             ELSE IF fs = "write failed"
                  THEN [e |-> quality.e, out |-> Answer(b, moves, TRUE, report, "write failed")]
                  ELSE [e |-> quality.e, out |-> Answer(b, moves, FALSE, report, "written")]

ReadOnly(op, r) ==
    /\ board' = r.board
    /\ move_history' = r.move_history
    /\ ret' = Ret(op, r.raised, r.val, r.msg)
    /\ UNCHANGED <<trail, undone, saveVars>>

GetMoveHistorySan ==
    /\ \E r \in {get_move_history_san(board, move_history)} :
          ReadOnly("get_move_history_san", r)
    /\ UNCHANGED engineVars

ExportPgn ==
    /\ \E pgn_string \in {PgnString(board, move_history)} :
       \E filename \in Filenames, fs \in FileOutcomes :
       \E r \in {export_pgn(pgn_string, board, move_history, filename, fs)} :
          /\ board' = r.board
          /\ move_history' = r.move_history
          /\ ret' = [op |-> "export_pgn", raised |-> r.raised, val |-> r.val,
                     msg |-> r.msg, filename |-> filename]
          /\ UNCHANGED <<trail, undone, saveVars>>
    /\ UNCHANGED engineVars

ExportAnalysisReport ==
    /\ constructed
    /\ \E parts \in {ReportParts(board, move_history)} :
       \E env \in AnalysisEnvs, fs \in FileOutcomes :
       \E r \in {export_analysis_report(parts, board, move_history, Eng0, env, fs)} :
          /\ ReadOnly("export_analysis_report", r.out)
          /\ stockfish' = r.e.sf
    /\ UNCHANGED <<constructed, engine_path>>

---------------------------------------------------------------------------
(* GameTracker: the end of the game *)

\* what Board.is_repetition compares: the pieces, the side to move and the
\* castling rights
TranspositionKey(pos) == [place |-> pos.place, turn |-> pos.turn, castling |-> CleanCastling(pos)]

\* Board.is_fivefold_repetition(): the position stood four times before
IsFivefoldRepetition(b) ==
    Cardinality({i \in 1..Len(b.stack) :
                    TranspositionKey(b.stack[i]) = TranspositionKey(b.pos)}) >= 4

\* Board.is_seventyfive_moves(): 150 half-moves without a capture or a pawn
\* move, and a move still to be made
IsSeventyfiveMoves(pos, stuck) == pos.halfmove >= 150 /\ ~stuck

\* game_tracker.py:92-94: Board.is_game_over() with claim_draw left False
is_game_over(b, stuck) ==
    \/ stuck
    \/ InsufficientMaterial(b.pos.place)
    \/ IsSeventyfiveMoves(b.pos, stuck)
    \/ IsFivefoldRepetition(b)

IsGameOver ==
    /\ \E stuck \in {LegalMoves(board.pos) = {}} :
          ret' = Ret("is_game_over", FALSE, is_game_over(board, stuck), "")
    /\ UNCHANGED <<ledgerVars, engineVars, saveVars>>

GetGameResult ==
    /\ ret' = Ret("get_game_result", FALSE, get_game_result(board.pos), "")
    /\ UNCHANGED <<ledgerVars, engineVars, saveVars>>

\* games played to their end: to a stalemate, to a king and bishop against a
\* king, and the kings stepping to and fro until the position has stood five
\* times
StalemateLine == <<Mv(0, 1, NoPromotion), Mv(9, 5, NoPromotion), Mv(4, 8, NoPromotion),
                   Mv(12, 8, NoPromotion), Mv(3, 15, NoPromotion)>>
BareLine == <<Mv(4, 8, NoPromotion), Mv(12, 8, NoPromotion), Mv(3, 15, NoPromotion),
              Mv(9, 6, NoPromotion), Mv(15, 3, NoPromotion), Mv(6, 3, "B")>>
ShuffleLine ==
    [i \in 1..18 |-> CASE i % 4 = 1 -> Mv(0, 1, NoPromotion)
                       [] i % 4 = 2 -> Mv(12, 13, NoPromotion)
                       [] i % 4 = 3 -> Mv(1, 0, NoPromotion)
                       [] OTHER     -> Mv(13, 12, NoPromotion)]
Lines == {StalemateLine, BareLine, ShuffleLine}

\* the next move of one of the games, typed in as coordinates
MakeMoveUciLine ==
    /\ \E line \in Lines :
          /\ Len(move_history) < Len(line)
          /\ move_history = SubSeq(line, 1, Len(move_history))
          /\ \E m \in {line[Len(move_history) + 1]} :
             \E legal_moves \in {LegalMoves(board.pos)} :
                make_move_uci(legal_moves, Uci(m.from, m.to, m.promotion))
    /\ UNCHANGED saveVars

---------------------------------------------------------------------------
(* AutoSave *)

\* config.py:26
DefaultInterval == 10

\* config.py:180-183
AutoSave0 ==
    /\ last_save_move_count = 0
    /\ saves = <<>>
    /\ pending = FALSE

\* what the file system does during _perform_auto_save
SaveOutcomes == {"saved", "makedirs failed", "write failed"}

\* config.py:198-212: every failure is caught and printed
perform_auto_save(count, outcome) == [count |-> count, outcome |-> outcome]

Checked(raised, attempted, last, log) ==
    [raised |-> raised, attempted |-> attempted, last |-> last, log |-> log]

\* mutant: the auto_save switch is not read
check_auto_save_IgnoresSwitch(enabled, interval, count, last, log, outcome) ==
    IF count > 0 /\ interval = 0
    THEN Checked(TRUE, FALSE, last, log)
    ELSE IF count > 0 /\ count % interval = 0 /\ count # last
         THEN Checked(FALSE, TRUE, count, Append(log, perform_auto_save(count, outcome)))
         ELSE Checked(FALSE, FALSE, last, log)

\* mutant: the count is not compared with last_save_move_count
check_auto_save_NoRepeatGuard(enabled, interval, count, last, log, outcome) ==
    IF ~enabled
    THEN Checked(FALSE, FALSE, last, log)
    ELSE IF count > 0 /\ interval = 0
         THEN Checked(TRUE, FALSE, last, log)
         ELSE IF count > 0 /\ count % interval = 0
              THEN Checked(FALSE, TRUE, count, Append(log, perform_auto_save(count, outcome)))
              ELSE Checked(FALSE, FALSE, last, log)

\* config.py:185-196; count % interval raises ZeroDivisionError for interval 0
check_auto_save(enabled, interval, count, last, log, outcome) ==
    IF ~enabled
    THEN Checked(FALSE, FALSE, last, log)
    ELSE IF count > 0 /\ interval = 0
         THEN Checked(TRUE, FALSE, last, log)
         ELSE IF count > 0 /\ count % interval = 0 /\ count # last
              THEN Checked(FALSE, TRUE, count, Append(log, perform_auto_save(count, outcome)))
              ELSE Checked(FALSE, FALSE, last, log)

\* check_auto_save runs after every successful ledger mutation
CheckAutoSave ==
    /\ pending
    /\ \E outcome \in SaveOutcomes :
        LET r == check_auto_save(auto_save, auto_save_interval, Len(move_history),
                                 last_save_move_count, saves, outcome)
        IN  /\ last_save_move_count' = r.last
            /\ saves' = r.log
            /\ ret' = Ret("check_auto_save", r.raised, r.attempted,
                          IF r.attempted THEN outcome ELSE "")
    /\ pending' = FALSE
    /\ UNCHANGED <<auto_save, auto_save_interval, ledgerVars, engineVars>>

ApplyMove ==
    /\ ~pending
    /\ Len(move_history) < MaxAnalysed
    /\ Len(saves) < MaxSaves
    /\ \E legal_moves \in {LegalMoves(board.pos)} :
           \E t \in FixedUci : make_move_uci(legal_moves, t)
    /\ pending' = ret'.val
    /\ UNCHANGED <<auto_save, auto_save_interval, last_save_move_count, saves>>

UndoLast ==
    /\ ~pending
    /\ Len(saves) < MaxSaves
    /\ undo_move
    /\ pending' = ret'.val
    /\ UNCHANGED <<auto_save, auto_save_interval, last_save_move_count, saves>>

Intervals == 0..MaxInterval

InitAutoSave ==
    /\ board = NewBoard
    /\ move_history = <<>>
    /\ trail = <<>>
    /\ undone = 0
    /\ constructed = FALSE
    /\ stockfish = "None"
    /\ engine_path = "None"
    /\ ret = Ret("AutoSave", FALSE, TRUE, "")
    /\ auto_save \in BOOLEAN
    /\ auto_save_interval \in Intervals
    /\ AutoSave0

NextAutoSave == ApplyMove \/ UndoLast \/ CheckAutoSave

SpecAutoSave == InitAutoSave /\ [][NextAutoSave]_vars

\* a new game is started; the check that follows finds no moves
ResetLedger ==
    /\ ~pending
    /\ reset_game
    /\ pending' = TRUE
    /\ UNCHANGED <<auto_save, auto_save_interval, last_save_move_count, saves>>

\* one game after another, no move taken back
NextGames == ApplyMove \/ CheckAutoSave \/ ResetLedger

SpecGames == InitAutoSave /\ [][NextGames]_vars

Init ==
    /\ board = NewBoard
    /\ move_history = <<>>
    /\ trail = <<>>
    /\ undone = 0
    /\ constructed = FALSE
    /\ stockfish = "None"
    /\ engine_path \in {"None", "configured"}
    /\ auto_save = TRUE
    /\ auto_save_interval = DefaultInterval
    /\ AutoSave0
    /\ ret = Ret("GameTracker", FALSE, TRUE, "")

NextLedger == MakeMove \/ MakeMoveUci \/ UndoMove \/ ResetGame

SpecLedger == Init /\ [][NextLedger]_vars

\* the statistics of every game of legal moves
NextStats == MakeMoveUci \/ ResetGame \/ GetGameStatistics

SpecStats == Init /\ [][NextStats]_vars

\* the move list of every game of legal moves
NextNotation == MakeMoveUci \/ ResetGame \/ GetMoveHistorySan

SpecNotation == Init /\ [][NextNotation]_vars

\* the PGN record of every game of legal moves
NextPgn == MakeMoveUci \/ ResetGame \/ ExportPgn

SpecPgn == Init /\ [][NextPgn]_vars

\* the end of the game: every game of legal moves, and the games played out
NextResult == MakeMoveUci \/ MakeMoveUciLine \/ ResetGame \/ GetGameResult \/ IsGameOver

SpecResult == Init /\ [][NextResult]_vars

NextEngine ==
    \/ Construct(Worlds)
    \/ RecoverEngine(Worlds)
    \/ Close
    \/ IsAvailable
    \/ GetBestMove
    \/ GetEvaluation(RawScores)
    \/ GetTopMoves(TopEntries)
    \/ AnalyzePosition
    \/ GetMoveAnalysisText
    \/ ConfigureForGameAnalysis
    \/ ConfigureForDeepAnalysis
    \/ SetSkillLevel

SpecEngine == Init /\ [][NextEngine]_vars

\* the analysed games: an engine started from the system path or not at all
FewWorlds == {World({}, s, TRUE) : s \in SUBSET {"stockfish"}}

NextAnalysis ==
    \/ MakeMoveUciFixed
    \/ Construct(FewWorlds)
    \/ RecoverEngine(FewWorlds)
    \/ IsAvailable
    \/ GetBestMove
    \/ GetEvaluation(FewScores)
    \/ GetTopMoves(FewEntries)
    \/ AnalyzeGameQuality
    \/ GetGameStatistics
    \/ GetMoveHistorySan
    \/ ExportPgn
    \/ ExportAnalysisReport

SpecAnalysis == Init /\ [][NextAnalysis]_vars

\* get_evaluation on its own: two raw scores of a ready engine are drawn,
\* the call normalizes each, and the first is shown as the consumers show it
InitEval ==
    /\ board = NewBoard
    /\ move_history = <<>>
    /\ trail = <<>>
    /\ undone = 0
    /\ constructed = TRUE
    /\ stockfish = "Stockfish"
    /\ engine_path = "stockfish"
    /\ auto_save = TRUE
    /\ auto_save_interval = DefaultInterval
    /\ AutoSave0
    /\ \E x \in RawScores, y \in RawScores :
          ret = Ret("scores", FALSE, [x |-> x, y |-> y], "")

CompareEvaluations ==
    /\ ret.op = "scores"
    /\ LET rx == get_evaluation(Eng0, Env(0, "None", ret.val.x, <<>>))
           ry == get_evaluation(Eng(rx.e.sf, 0), Env(0, "None", ret.val.y, <<>>))
       IN  /\ stockfish' = ry.e.sf
           /\ ret' = Ret("get_evaluation", FALSE,
                         [x |-> ret.val.x, y |-> ret.val.y, ex |-> rx.val, ey |-> ry.val,
                          shown |-> EvaluationLine(rx.val)], "")
    /\ UNCHANGED <<constructed, engine_path, ledgerVars, saveVars>>

SpecEval == InitEval /\ [][CompareEvaluations]_vars

---------------------------------------------------------------------------
(* Ledger properties *)

RECURSIVE Replay(_)
\* the initial position with the given moves pushed in order
Replay(moves) ==
    IF moves = <<>> THEN NewBoard ELSE Push(Replay(Front(moves)), Last(moves))

\* C1: after any sequence of make_move, make_move_uci, undo_move and reset_game
\* calls, accepted or rejected, len(move_history) is the number of moves applied
\* on the board and the board is the initial position with the moves of
\* move_history applied in order; reset_game leaves the empty ledger and the
\* initial position.
C1_LedgerMatchesBoard ==
    /\ Len(move_history) = Len(board.move_stack)
    /\ Len(move_history) = Len(board.stack)
    /\ board = Replay(move_history)
    /\ ret.op = "reset_game" => move_history = <<>> /\ board = NewBoard

\* a ledger of two moves left by an undo that followed three applies
C1_Witness ==
    /\ ret.op = "undo_move" /\ ret.val
    /\ Len(move_history) = 2
    /\ Len(trail) = 3

LedgerOps == {"make_move", "make_move_uci", "undo_move"}

\* C8: a rejected ledger operation changes nothing: text that does not parse,
\* is ambiguous or is no legal move makes make_move / make_move_uci return
\* False, undo_move on the empty ledger returns False, and the board and
\* move_history are then what they were before the call.
C8_RejectedChangesNothing ==
    [][/\ (ret'.op \in LedgerOps /\ ret'.val = FALSE)
            => (board' = board /\ move_history' = move_history)
       /\ (ret'.op \in LedgerOps /\ ret'.msg # "") => ret'.val = FALSE
       /\ (ret'.op = "undo_move" /\ move_history = <<>>) => ret'.val = FALSE
       /\ (ret'.op \in LedgerOps /\ ret'.val = TRUE)
            => (board' # board /\ move_history' # move_history)]_vars

\* an ambiguous SAN text rejected on a ledger that holds moves
C8_Witness ==
    /\ ret.op = "make_move" /\ ret.val = FALSE /\ ret.msg = "ambiguous san"
    /\ move_history # <<>>

\* C9: N undo_move calls after N applied legal moves all succeed and leave the
\* initial position and the empty ledger; after k <= N undos the state is the
\* one that applying the first N-k moves reached.
C9_UndoRoundTrip ==
    /\ undone <= Len(trail)
    /\ LET n == Len(trail) - undone
       IN  IF n = 0
           THEN board = NewBoard /\ move_history = <<>>
           ELSE board = trail[n].board /\ move_history = trail[n].move_history
    /\ (ret.op = "undo_move" /\ ret.val = FALSE) => undone = Len(trail)

\* three applies undone by three undos
C9_Witness ==
    /\ ret.op = "undo_move" /\ ret.val
    /\ Len(trail) = 3 /\ undone = 3

---------------------------------------------------------------------------
(* Statistics properties *)

Counted == ret.op = "get_game_statistics"

\* the position in which the i-th move of the ledger was played, and the one
\* it left
PlayedIn(i) == Replay(SubSeq(move_history, 1, i - 1)).pos
LeftBy(i) == Replay(SubSeq(move_history, 1, i)).pos
NumberOf(P(_)) == Cardinality({i \in 1..Len(move_history) : P(i)})

WasCapture(i) ==
    LET pos == PlayedIn(i)  m == move_history[i]
    IN  pos.place[m.to] # NoPiece /\ pos.place[m.to].c = Other(pos.turn)
GaveCheck(i) == IsCheck(LeftBy(i))
Promoted(i) == move_history[i].promotion \in PromotionPieces
WasCastling(i) ==
    LET pos == PlayedIn(i)  m == move_history[i]
    IN  /\ pos.place[m.from] = Pc("K", pos.turn)
        /\ m.from = KingHome(pos.turn) /\ m.to = CastleKingTo(pos.turn)

\* C15: get_game_statistics returns captures equal to the number of ledger
\* moves that were captures in the position they were played in, checks equal
\* to the number that left the opponent in check, promotions equal to the
\* number of promoting moves, and total_moves equal to the ledger length.
C15_StatisticsCount ==
    Counted =>
        /\ ret.val.total_moves = Len(move_history)
        /\ ret.val.captures = NumberOf(WasCapture)
        /\ ret.val.checks = NumberOf(GaveCheck)
        /\ ret.val.promotions = NumberOf(Promoted)

\* a game of three moves with a capture that gave check and a promotion
C15_Witness ==
    /\ Counted
    /\ ret.val.total_moves = 3
    /\ ret.val.captures >= 1 /\ ret.val.checks >= 1 /\ ret.val.promotions = 1

\* C16: get_game_statistics returns castles equal to the number of ledger
\* moves that were castling moves in the position they were played in.
C16_CastlesCounted ==
    Counted => ret.val.castles = NumberOf(WasCastling)

\* C17: on the starting position with an empty ledger get_game_statistics
\* returns total_moves, captures, checks, castles and promotions 0 and material
\* advantage 0.
C17_EmptyLedgerAllZero ==
    (Counted /\ move_history = <<>>) =>
        /\ board = NewBoard
        /\ ret.val.total_moves = 0 /\ ret.val.captures = 0 /\ ret.val.checks = 0
        /\ ret.val.castles = 0 /\ ret.val.promotions = 0
        /\ ret.val.current_material.advantage = 0

\* the statistics of the empty ledger: each side has two rooks and a pawn
C17_Witness ==
    /\ Counted /\ move_history = <<>>
    /\ ret.val.current_material = [white |-> 11, black |-> 11, advantage |-> 0]

---------------------------------------------------------------------------
(* Auto-save properties *)

\* C18: check_auto_save calls the export exactly when auto_save is enabled and
\* the move count is positive, a multiple of the interval and different from
\* last_save_move_count, and it then sets last_save_move_count to the move
\* count; in every other case it calls no export and leaves
\* last_save_move_count unchanged.
C18_SavesExactlyWhenDue ==
    [][ret'.op = "check_auto_save" =>
        LET count == Len(move_history)
            due == /\ auto_save
                   /\ count > 0
                   /\ auto_save_interval # 0
                   /\ count % auto_save_interval = 0
                   /\ count # last_save_move_count
        IN  /\ due => /\ Len(saves') = Len(saves) + 1
                      /\ SubSeq(saves', 1, Len(saves)) = saves
                      /\ saves'[Len(saves')].count = count
                      /\ last_save_move_count' = count
            /\ ~due => /\ saves' = saves
                       /\ last_save_move_count' = last_save_move_count]_vars

\* a save at move 2 with interval 2
C18_Witness ==
    /\ ret.op = "check_auto_save" /\ ret.val
    /\ auto_save_interval = 2
    /\ Len(move_history) = 2 /\ last_save_move_count = 2

\* C19: with check_auto_save run after every successful ledger mutation, the
\* ledger standing at a multiple of the interval has been saved at that count,
\* and no count is saved twice in a row: undoing and re-applying around a
\* multiple of the interval, without a save at another multiple in between,
\* does not repeat the save.
C19_NoRepeatedSave ==
    /\ \A i \in 1..(Len(saves) - 1) : saves[i].count # saves[i + 1].count
    /\ (/\ auto_save /\ ~pending
        /\ auto_save_interval # 0
        /\ Len(move_history) > 0
        /\ Len(move_history) % auto_save_interval = 0)
          => (saves # <<>> /\ saves[Len(saves)].count = Len(move_history))

\* back at move 2 by an undo and a re-apply: the check ran and saved nothing
C19_Witness ==
    /\ ret.op = "check_auto_save" /\ ~ret.val
    /\ auto_save /\ auto_save_interval = 2
    /\ Len(move_history) = 2
    /\ saves = <<[count |-> 2, outcome |-> "saved"]>>

---------------------------------------------------------------------------
(* Engine adapter properties *)

Ready == stockfish # "None"
Crashed == constructed /\ stockfish = "None"

EnginePublicOps ==
    {"is_available", "get_best_move", "get_evaluation", "get_top_moves",
     "analyze_position", "get_move_analysis_text", "configure_for_game_analysis",
     "configure_for_deep_analysis", "set_skill_level"}

FailureMsgs == {"request failed", "failed midway"}

\* C4: no public method of ChessEngine raises to its caller whatever the engine
\* process does: each returns normally when the underlying request fails, and
\* the failure leaves the session crashed.
C4_NeverRaises ==
    ret.op \in EnginePublicOps =>
        /\ ~ret.raised
        /\ ret.msg \in FailureMsgs => Crashed

\* C5 as stated: the session becomes ready only by a successful startup or a
\* successful recover_engine, leaves ready only because a request failed, and
\* once crashed stays crashed until a recover_engine call succeeds.
C5_Original ==
    [][/\ (~Ready /\ Ready') =>
            \/ ~constructed /\ ret'.op = "__init__" /\ ret'.val
            \/ constructed /\ ret'.op = "recover_engine" /\ ret'.val
       /\ (Ready /\ ~Ready') => ret'.msg \in FailureMsgs
       /\ (Crashed /\ ~(ret'.op = "recover_engine" /\ ret'.val)) => Crashed']_vars

\* C5 amended: as C5, except that the session leaves ready because a request
\* failed or because close() was called.
C5_SessionMachine ==
    [][/\ (~Ready /\ Ready') =>
            \/ ~constructed /\ ret'.op = "__init__" /\ ret'.val
            \/ constructed /\ ret'.op = "recover_engine" /\ ret'.val
       /\ (Ready /\ ~Ready') => (ret'.msg \in FailureMsgs \/ ret'.op = "close")
       /\ (Crashed /\ ~(ret'.op = "recover_engine" /\ ret'.val)) => Crashed']_vars

\* a recovery that restarted the engine from the crashed state
C5_Witness ==
    /\ ret.op = "recover_engine" /\ ret.val /\ ret.msg # ""
    /\ Ready

\* C6: when a request of is_available, get_best_move, get_evaluation or
\* get_top_moves fails, the call leaves the session crashed and returns False,
\* None, None or the empty list; get_top_moves returns no partly built list.
C6_FailureCrashesAndReturnsEmpty ==
    (ret.op \in {"is_available", "get_best_move", "get_evaluation", "get_top_moves"}
        /\ ret.msg \in FailureMsgs) =>
        /\ Crashed
        /\ ~ret.raised
        /\ ret.op = "is_available" => ret.val = FALSE
        /\ ret.op = "get_best_move" => ret.val = "None"
        /\ ret.op = "get_evaluation" => ret.val = NoneVal
        /\ ret.op = "get_top_moves" => ret.val = <<>>

\* get_top_moves failing after it had built an entry
C6_Witness ==
    /\ ret.op = "get_top_moves" /\ ret.msg = "failed midway"
    /\ Crashed

---------------------------------------------------------------------------
(* Game analysis properties *)

Analysed == ret.op = "analyze_game_quality"

RECURSIVE PositionsOfGame(_)
\* for each move of the game in order, the position before it and after it
PositionsOfGame(moves) ==
    IF moves = <<>> THEN <<>>
    ELSE PositionsOfGame(Front(moves))
            \o <<Fen(Replay(Front(moves)).pos), Fen(Replay(moves).pos)>>

\* C2: with the engine ready and answering every request, analyze_game_quality
\* on a ledger of n >= 1 moves returns normally, has evaluated the position
\* before and after each move as reached in the game, in order (2n
\* evaluations), and has put each of the n moves into one tier.
C2_EveryMoveEvaluated ==
    (Analysed /\ Ready /\ ret.msg = "" /\ move_history # <<>>) =>
        /\ ~ret.raised
        /\ ret.val.trace.evaluated = PositionsOfGame(move_history)
        /\ Len(ret.val.trace.tiers) = Len(move_history)

\* C3: for every classified move the loss is eval_before - eval_after when
\* White made the move and eval_after - eval_before when Black made it; a
\* White move with eval_before = +0.3 and eval_after = -2.1 has loss 2.4 and
\* is counted as a blunder.
C3_LossFromMoversSide ==
    (Analysed /\ ~ret.raised /\ ret.val.trace.tiers # <<>>) =>
        LET t == ret.val.trace
            whiteMoved == board.pos.turn = BLACK
        IN  /\ t.losses[1] = IF whiteMoved THEN t.eval_before.v - t.eval_after.v
                             ELSE t.eval_after.v - t.eval_before.v
            /\ (whiteMoved /\ t.eval_before.v = 30 /\ t.eval_after.v = -210)
                  => (t.losses[1] = 240 /\ ret.val.report.blunders = 1)

\* C7: while the session is crashed, get_best_move and get_evaluation return
\* None, get_top_moves returns the empty list, is_available returns False and
\* analyze_game_quality returns the unavailable result whatever the ledger
\* holds; none of them raises, and the session stays crashed.
C7_CrashedAnswersEmpty ==
    [][Crashed =>
        /\ ret'.op = "get_best_move" => (ret'.val = "None" /\ ~ret'.raised)
        /\ ret'.op = "get_evaluation" => (ret'.val = NoneVal /\ ~ret'.raised)
        /\ ret'.op = "get_top_moves" => (ret'.val = <<>> /\ ~ret'.raised)
        /\ ret'.op = "is_available" => (ret'.val = FALSE /\ ~ret'.raised)
        /\ ret'.op = "analyze_game_quality" =>
              (ret'.val.report.error /\ ret'.val.trace.evaluated = <<>> /\ ~ret'.raised)
        /\ ret'.op \in {"get_best_move", "get_evaluation", "get_top_moves",
                        "is_available", "analyze_game_quality"} => Crashed']_vars

\* the unavailable result for a ledger of two moves, from a session that was
\* crashed before the call
C7_Witness ==
    /\ Analysed /\ ret.val.report.error /\ ret.msg = ""
    /\ Crashed
    /\ Len(move_history) = 2

\* the four counters of a report
Counters(r) == <<r.excellent_moves, r.inaccuracies, r.mistakes, r.blunders>>

\* C13: the tier is a function of the loss with these bounds: loss <= -2.0 is
\* excellent; -2.0 < loss <= 0.5 is good and increments no counter; 0.5 < loss
\* <= 1.0 is an inaccuracy; 1.0 < loss <= 2.0 is a mistake; loss > 2.0 is a
\* blunder; a classified move increments at most one counter.
C13_TierBoundaries ==
    (Analysed /\ ~ret.raised /\ ret.val.trace.losses # <<>>) =>
        LET l == ret.val.trace.losses[1]
            c == Counters(ret.val.report)
        IN  /\ l <= -200 => c = <<1, 0, 0, 0>>
            /\ (-200 < l /\ l <= 50) => c = <<0, 0, 0, 0>>
            /\ (50 < l /\ l <= 100) => c = <<0, 1, 0, 0>>
            /\ (100 < l /\ l <= 200) => c = <<0, 0, 1, 0>>
            /\ l > 200 => c = <<0, 0, 0, 1>>
            /\ c[1] + c[2] + c[3] + c[4] <= 1

\* a loss of exactly 1.0, counted as an inaccuracy
C13_Witness ==
    /\ Analysed /\ ~ret.raised
    /\ ret.val.trace.losses = <<100>>
    /\ ret.val.report.inaccuracies = 1

---------------------------------------------------------------------------
(* Evaluation properties: values in hundredths of a pawn *)

Evaluated == ret.op = "get_evaluation"
IsCp(s) == s.type = "cp"
WhiteMates(s) == s.type = "mate" /\ s.value >= 1
BlackMates(s) == s.type = "mate" /\ s.value <= -1

\* the part of C10 that does not compare a mate with a centipawn score
OrderedApart(x, y, ex, ey) ==
    /\ (WhiteMates(x) /\ WhiteMates(y) /\ x.value < y.value) => ex > ey
    /\ (BlackMates(x) /\ BlackMates(y) /\ x.value < y.value) => ex > ey
    /\ (WhiteMates(x) /\ BlackMates(y)) => ex > ey
    /\ (IsCp(x) /\ x.value > 0) => ex > 0
    /\ (IsCp(x) /\ x.value < 0) => ex < 0
    /\ (IsCp(x) /\ IsCp(y) /\ x.value < y.value) => ex < ey

\* C10 as stated: mate-in-1 for White > mate-in-5 for White > any positive
\* centipawn score > 0 > any negative centipawn score > mate-in-5 for Black >
\* mate-in-1 for Black; more plies to mate give a less extreme score and a
\* mate score beats every centipawn score.
C10_Original ==
    Evaluated =>
        LET x == ret.val.x  y == ret.val.y  ex == ret.val.ex.v  ey == ret.val.ey.v
        IN  /\ ret.val.ex.some /\ ret.val.ey.some
            /\ OrderedApart(x, y, ex, ey)
            /\ (WhiteMates(x) /\ IsCp(y)) => ex > ey
            /\ (BlackMates(x) /\ IsCp(y)) => ex < ey

\* C10 amended: as C10, except that a mate in N plies beats exactly the
\* centipawn scores of magnitude below 100 * (999 - N), so that the chain
\* from mate-in-1 to mate-in-5 holds for centipawn scores of magnitude below
\* 99,400.
C10_Ordering ==
    Evaluated =>
        LET x == ret.val.x  y == ret.val.y  ex == ret.val.ex.v  ey == ret.val.ey.v
        IN  /\ ret.val.ex.some /\ ret.val.ey.some
            /\ OrderedApart(x, y, ex, ey)
            /\ (WhiteMates(x) /\ IsCp(y)) => (ex > ey <=> y.value < 100 * (999 - x.value))
            /\ (BlackMates(x) /\ IsCp(y)) => (ex < ey <=> y.value > -100 * (999 + x.value))
            /\ (WhiteMates(x) /\ x.value <= 5 /\ IsCp(y) /\ y.value < 99400) => ex > ey
            /\ (BlackMates(x) /\ x.value >= -5 /\ IsCp(y) /\ y.value > -99400) => ex < ey

\* mate in 5 for White against the largest centipawn score below it
C10_Witness ==
    /\ ret.op = "get_evaluation"
    /\ ret.val.x = Mate(5) /\ ret.val.y = Cp(99399)
    /\ ret.val.ex.v > ret.val.ey.v

\* C11 as stated: a centipawn score c becomes c / 100 pawns, a mate in N plies
\* in the engine's favor becomes 999 - N, and a mate in N plies in the
\* opponent's favor becomes -999 - N.
C11_Original ==
    Evaluated =>
        LET x == ret.val.x  ex == ret.val.ex IN
        /\ ex.some
        /\ IsCp(x) => ex.v = x.value
        /\ WhiteMates(x) => ex.v = 100 * (999 - x.value)
        /\ BlackMates(x) => ex.v = 100 * (-999 - (-x.value))

\* C11 amended: a centipawn score c becomes c / 100 pawns, a mate in N plies
\* in the engine's favor (raw value N >= 1) becomes 999 - N, positive, and a
\* mate in N plies in the opponent's favor (raw value -N) becomes -999 + N,
\* negative.
C11_RawScoreMapping ==
    Evaluated =>
        LET x == ret.val.x  ex == ret.val.ex IN
        /\ ex.some
        /\ IsCp(x) => ex.v = x.value
        /\ WhiteMates(x) => (ex.v = 100 * (999 - x.value) /\ ex.v > 0)
        /\ BlackMates(x) => (ex.v = 100 * (-999 + (-x.value)) /\ ex.v < 0)

\* a mate in 3 for the opponent, normalized to -996
C11_Witness ==
    /\ Evaluated
    /\ ret.val.x = Mate(-3) /\ ret.val.ex = Some(-99600)

\* C12 as stated: every mate score is normalized to a magnitude above 900 and
\* every centipawn score to a magnitude of at most 900, so abs(evaluation) >
\* 900 shows exactly the mates, and the mate distance and colour shown are the
\* engine's.
C12_Original ==
    Evaluated =>
        LET x == ret.val.x  ex == ret.val.ex  shown == ret.val.shown IN
        /\ (WhiteMates(x) \/ BlackMates(x)) => Abs(ex.v) > 90000
        /\ IsCp(x) => Abs(ex.v) <= 90000
        /\ shown.kind = "mate" <=> x.type = "mate"
        /\ WhiteMates(x) => (shown.n = x.value /\ shown.color = "White")
        /\ BlackMates(x) => (shown.n = -x.value /\ shown.color = "Black")

\* C12 amended: a mate in 1 to 98 plies is normalized to a magnitude above 900
\* and a centipawn score of at most 90,000 in magnitude to a magnitude of at
\* most 900; for these scores abs(evaluation) > 900 shows exactly the mates,
\* with the engine's mate distance and winning side.
C12_MateBand ==
    Evaluated =>
        LET x == ret.val.x  ex == ret.val.ex  shown == ret.val.shown
            near == x.type = "mate" /\ Abs(x.value) \in 1..98
            small == IsCp(x) /\ Abs(x.value) <= 90000
        IN  /\ near => (Abs(ex.v) > 90000 /\ shown.kind = "mate")
            /\ small => (Abs(ex.v) <= 90000 /\ shown.kind = "cp" /\ shown.n = x.value)
            /\ (near /\ x.value > 0) => (shown.n = x.value /\ shown.color = "White")
            /\ (near /\ x.value < 0) => (shown.n = -x.value /\ shown.color = "Black")

\* a mate in 98 for Black, shown as such
C12_Witness ==
    /\ Evaluated
    /\ ret.val.x = Mate(-98)
    /\ ret.val.shown = [kind |-> "mate", color |-> "Black", n |-> 98]

---------------------------------------------------------------------------
(* Frame properties *)

ReadOnlyOps ==
    {"export_pgn", "export_analysis_report", "get_game_statistics",
     "analyze_game_quality", "get_move_history_san"}

\* C20: export_pgn, export_analysis_report, get_game_statistics,
\* analyze_game_quality and get_move_history_san leave the board and
\* move_history unchanged, also when writing the file fails or the engine
\* fails during the call.
C20_ReadOnlyOverLedger ==
    [][ret'.op \in ReadOnlyOps => (board' = board /\ move_history' = move_history)]_vars

\* a report on a ledger of two moves whose engine failed during the analysis
\* and whose file could not be written
C20_Witness ==
    /\ ret.op = "export_analysis_report" /\ ret.raised /\ ret.msg = "write failed"
    /\ ~ret.val.quality.error /\ Crashed
    /\ Len(move_history) = 2 /\ board = Replay(move_history)

---------------------------------------------------------------------------
(* The analysis report *)

\* the line the report should hold for the k-th pair of moves
PairLine(history, k) ==
    [move_num |-> k,
     white_move |-> history[2 * k - 1],
     black_move |-> IF 2 * k <= Len(history) THEN history[2 * k] ELSE SanGarbage]

\* C21: for every ledger, the empty one included, export_analysis_report
\* produces a report whose sections come in the fixed order header, game
\* statistics, move quality, move history, and whose move history holds the
\* whole move list, one line per pair of moves, in order
C21_FullMoveList ==
    (ret.op = "export_analysis_report" /\ ret.msg # "write failed") =>
        /\ ~ret.raised
        /\ IF ret.val = "None" THEN FALSE
           ELSE LET history == SanList(move_history)
                IN  /\ ret.val.sections = <<"CHESS GAME ANALYSIS REPORT", "GAME STATISTICS:",
                                            "MOVE QUALITY ANALYSIS:", "MOVE HISTORY:">>
                    /\ Len(ret.val.history) = (Len(history) + 1) \div 2
                    /\ \A k \in 1..Len(ret.val.history) :
                          ret.val.history[k] = PairLine(history, k)

---------------------------------------------------------------------------
(* The move list *)

Listed == ret.op = "get_move_history_san"

\* C22: get_move_history_san returns exactly len(move_history) strings, the
\* i-th the notation of the i-th move in the position reached by the first
\* i-1 moves (so it reads back as that move there), and a second call with no
\* mutation in between returns the same sequence
C22_MoveListStable ==
    /\ [](Listed =>
            /\ ~ret.raised
            /\ Len(ret.val) = Len(move_history)
            /\ \A i \in 1..Len(move_history) :
                  /\ ret.val[i] = BoardSan(PlayedIn(i), move_history[i])
                  /\ parse_san(PlayedIn(i), LegalMoves(PlayedIn(i)), ret.val[i])
                        = Parsed(move_history[i]))
    /\ [][(Listed /\ Listed' /\ move_history' = move_history) => ret'.val = ret.val]_vars

\* a list of three moves, one of them written with the file it starts from
\* because another piece of its kind could go to the same square
C22_Witness ==
    /\ Listed
    /\ Len(ret.val) = 3
    /\ \E i \in 1..3 : /\ ret.val[i].kind = "san"
                       /\ ret.val[i].piece = "R"
                       /\ ret.val[i].ffile # NoCoord

---------------------------------------------------------------------------
(* The result of the game *)

Checkmate == LegalMoves(board.pos) = {} /\ IsCheck(board.pos)
Stalemate == LegalMoves(board.pos) = {} /\ ~IsCheck(board.pos)

\* C23: get_game_result returns "0-1" on checkmate with White to move, "1-0"
\* on checkmate with Black to move, "1/2-1/2" on stalemate or insufficient
\* material, and "*" otherwise
C23_ResultTokens ==
    ret.op = "get_game_result" =>
        /\ ~ret.raised
        /\ ret.val = CASE Checkmate /\ board.pos.turn = WHITE -> "0-1"
                       [] Checkmate /\ board.pos.turn = BLACK -> "1-0"
                       [] ~Checkmate /\ (Stalemate \/ InsufficientMaterial(board.pos.place))
                             -> "1/2-1/2"
                       [] OTHER -> "*"

\* White is checkmated and the result is read
C23_Witness ==
    /\ ret.op = "get_game_result"
    /\ Checkmate /\ board.pos.turn = WHITE
    /\ ret.val = "0-1"

\* C28: whenever is_game_over() is true, get_game_result() is not "*"
C28_OverMeansDecided ==
    (ret.op = "is_game_over" /\ ret.val = TRUE) => get_game_result(board.pos) # "*"

---------------------------------------------------------------------------
(* Engine startup *)

\* the sources in their order of preference, and whether an engine can be
\* started from one: the two paths must be files, the name is resolved by the
\* system
Sources(path) == IF path = "None" THEN <<"project", "stockfish">>
                 ELSE <<path, "project", "stockfish">>
CanStart(w, i, order) ==
    /\ order[i] \in w.starts
    /\ (i < Len(order)) => order[i] \in w.exists

\* C24: a startup or recovery attempt tries the configured path, then the
\* project-relative default, then the system-resolved name, moving on when a
\* source cannot start the engine, so the session is ready after the attempt
\* whenever one of them can; recover_engine returns True exactly when the
\* session is ready afterwards, and returns True without restarting anything
\* when the session was ready already
C24_TriesEachSource ==
    [][/\ (ret'.op = "__init__" \/ (ret'.op = "recover_engine" /\ ~Ready)) =>
            LET order == Sources(engine_path) IN
            (ret'.world.depthOk /\ \E i \in 1..Len(order) : CanStart(ret'.world, i, order))
                => Ready'
       /\ ret'.op = "recover_engine" =>
            /\ ret'.val = Ready'
            /\ Ready => (ret'.val /\ ret'.msg = "" /\ UNCHANGED engineVars)]_vars

---------------------------------------------------------------------------
(* The PGN record *)

Exported == ret.op = "export_pgn"

\* C25: the mainline of the record export_pgn builds is exactly the ledger's
\* moves in order, the Result header and the closing result token both equal
\* get_game_result() of the current position, one of 1-0, 0-1, 1/2-1/2 and *,
\* and a file is written only when a filename is given
C25_PgnRecord ==
    Exported =>
        /\ Len(ret.val.moves) = Len(move_history)
        /\ \A i \in 1..Len(move_history) :
              parse_san(PlayedIn(i), LegalMoves(PlayedIn(i)), ret.val.moves[i])
                 = Parsed(move_history[i])
        /\ ret.val.result = get_game_result(board.pos)
        /\ ret.val.token = get_game_result(board.pos)
        /\ ret.val.token \in {"1-0", "0-1", "1/2-1/2", "*"}
        /\ ret.msg \in {"written", "write failed"} => ret.filename # "None"
        /\ ret.filename = "None" => ~ret.raised

\* a finished game of two moves written to a file
C25_Witness ==
    /\ Exported
    /\ Len(move_history) = 2
    /\ ret.val.token = "0-1"
    /\ ret.msg = "written"

---------------------------------------------------------------------------
(* Material *)

\* the pieces of one kind and colour on the board, and a side's total
HowMany(t, c) == Cardinality({q \in Squares : board.pos.place[q] = Pc(t, c)})
SideTotal(c) ==
    1 * HowMany("P", c) + 3 * HowMany("N", c) + 3 * HowMany("B", c)
        + 5 * HowMany("R", c) + 9 * HowMany("Q", c) + 0 * HowMany("K", c)

\* C26: the material balance of get_game_statistics is taken on the current
\* position with pawn 1, knight 3, bishop 3, rook 5, queen 9 and king 0 summed
\* for each side, and the advantage is White's total less Black's
C26_MaterialBalance ==
    Counted =>
        /\ ret.val.current_material.white = SideTotal(WHITE)
        /\ ret.val.current_material.black = SideTotal(BLACK)
        /\ ret.val.current_material.advantage = SideTotal(WHITE) - SideTotal(BLACK)

\* a pawn has been promoted and the sides are no longer level
C26_Witness ==
    /\ Counted
    /\ \E q \in Squares : board.pos.place[q].t \in {"Q", "N", "B"}
    /\ ret.val.current_material.advantage > 0
    /\ ret.val.current_material.white # SumValues(StartPlace, WHITE, 0)

---------------------------------------------------------------------------
(* Analysis of the empty ledger *)

\* C27: analyze_game_quality on an empty ledger with a ready engine returns
\* normally a report with total_moves 0, every tier count 0 and
\* average_centipawn_loss 0, and asks the engine for no evaluation
C27_EmptyLedgerAnalysed ==
    [][(ret'.op = "analyze_game_quality" /\ move_history = <<>> /\ Ready /\ ret'.msg = "") =>
          /\ ~ret'.raised
          /\ ~ret'.val.report.error
          /\ ret'.val.report.total_moves = 0
          /\ Counters(ret'.val.report) = <<0, 0, 0, 0>>
          /\ ret'.val.report.average_centipawn_loss = 0
          /\ ret'.val.trace.evaluated = <<>>]_vars

---------------------------------------------------------------------------
(* Auto-save: a new game, a failed save *)

\* C29: after reset_game the auto-save policy treats the new game on its own:
\* when an earlier game was saved at move count c and the ledger was reset, the
\* first time the new game stands at c, a multiple of the interval, a save
\* fires (no move is taken back here, so every arrival at a count is the first
\* of its game)
C29_NewGameSavedAgain ==
    [][(/\ ret'.op = "check_auto_save"
        /\ auto_save
        /\ auto_save_interval # 0
        /\ Len(move_history) > 0
        /\ Len(move_history) % auto_save_interval = 0
        /\ \E i \in 1..Len(saves) : saves[i].count = Len(move_history))
          => /\ ret'.val
             /\ Len(saves') = Len(saves) + 1
             /\ saves'[Len(saves')].count = Len(move_history)]_vars

\* C30: last_save_move_count is set to the move count only when the export
\* succeeded; when _perform_auto_save fails, in makedirs or in the write, it
\* keeps its value, so that the next check at the same count tries again
C30_FailedSaveRetried ==
    [][(ret'.op = "check_auto_save" /\ ret'.val) =>
          IF ret'.msg = "saved"
          THEN last_save_move_count' = Len(move_history)
          ELSE last_save_move_count' = last_save_move_count]_vars

====
